---- MODULE Spec2Model ----
(***************************************************************************)
(* Model of project.py, a Vigenere cracker: clean_text,                    *)
(* kasiski_examination, get_cosets, frequency_analysis, crack_vigenere and *)
(* decrypt_vigenere.  Strings are sequences of Unicode code points;        *)
(* Python offsets are kept 0-based and translated at each access.          *)
(***************************************************************************)
EXTENDS Integers, Sequences, FiniteSets, TLC

VARIABLES ciphertext, cleaned, possible_lengths, pc, ri, key_length,
          tried, asked, responses, result,
          fn_text, fn_key, fn_n, fn_enc, fn_ret

vars == <<ciphertext, cleaned, possible_lengths, pc, ri, key_length,
          tried, asked, responses, result,
          fn_text, fn_key, fn_n, fn_enc, fn_ret>>

orch_vars == <<ciphertext, cleaned, possible_lengths, ri, key_length,
               tried, asked, responses, result>>

fn_vars == <<fn_text, fn_key, fn_n, fn_enc, fn_ret>>

(***************************************************************************)
(* Bounds of the input sets.                                               *)
(***************************************************************************)
MaxTextLen == 3
MaxCodecKeyLen == 2
MaxCosetTextLen == 4
MaxCosetArg == 6
MaxCosetLen == 3
MaxKasLen == 9
MaxSynLen == 27
MaxRawLen == 1

(***************************************************************************)
(* Characters and the Python string built-ins the program uses.            *)
(***************************************************************************)
ord_a == 97

ascii_lowercase == [i \in 1..26 |-> 96 + i]

KELVIN == 8490
E_ACUTE_UPPER == 201
E_ACUTE == 233
I_DOT_UPPER == 304

\* str.lower() of one character; a string, since U+0130 lowers to two
\* code points and U+212A (KELVIN SIGN) lowers to the ASCII letter k.
lower(c) ==
    IF c \in 65..90 THEN <<c + 32>>
    ELSE IF c = KELVIN THEN <<107>>
    ELSE IF c = E_ACUTE_UPPER THEN <<E_ACUTE>>
    ELSE IF c = I_DOT_UPPER THEN <<105, 775>>
    ELSE <<c>>

isupper(c) == c \in 65..90 \/ c \in {KELVIN, E_ACUTE_UPPER, I_DOT_UPPER}

\* str.upper() of a lowercase ASCII letter
upper(c) == IF c \in 97..122 THEN c - 32 ELSE c

RECURSIVE str_lower(_)
str_lower(s) == IF s = <<>> THEN <<>> ELSE lower(Head(s)) \o str_lower(Tail(s))

\* the operator "s in t" on strings: s is a contiguous substring of t
str_in(s, t) ==
    \E k \in 0..(Len(t) - Len(s)) : \A j \in 1..Len(s) : t[k + j] = s[j]

\* Op applied to the value of v: the value is computed once, before Op
\* uses it (with(v, Op) = Op(v))
with(v, Op(_)) == CHOOSE r \in {Op(x) : x \in {v}} : TRUE

\* the set of strings over a character set, up to a length
RECURSIVE StringsUpTo(_, _)
StringsUpTo(chars, n) ==
    IF n = 0 THEN {<<>>}
    ELSE LET shorter == StringsUpTo(chars, n - 1)
         IN  shorter \cup {Append(s, c) : s \in {t \in shorter : Len(t) = n - 1}, c \in chars}

(***************************************************************************)
(* ENGLISH_FREQ and clean_text                                             *)
(***************************************************************************)
ENGLISH_FREQ ==
    <<101, 116, 97, 111, 105, 110, 115, 104, 114, 100, 108, 99, 117,
      109, 119, 102, 103, 121, 112, 98, 118, 107, 106, 120, 113, 122>>

\* list.index: 0-based offset of the first equal element
list_index(l, x) == (CHOOSE i \in 1..Len(l) : l[i] = x /\ \A j \in 1..(i - 1) : l[j] # x) - 1

list_contains(l, x) == \E i \in 1..Len(l) : l[i] = x

\* ENGLISH_FREQ.index(c) for the characters that ENGLISH_FREQ contains
english_index ==
    [c \in {ENGLISH_FREQ[i] : i \in 1..Len(ENGLISH_FREQ)} |-> list_index(ENGLISH_FREQ, c)]

\* re.sub(r'[^a-zA-Z]', '', ciphertext).lower()
clean_text(ct) ==
    str_lower(SelectSeq(ct, LAMBDA c : c \in 65..90 \/ c \in 97..122))

(***************************************************************************)
(* decrypt_vigenere                                                        *)
(***************************************************************************)
Ok(v) == [ok |-> TRUE, val |-> v]
Raised == [ok |-> FALSE, val |-> <<>>]

\* the branch test of the loop: c.lower() in string.ascii_lowercase
is_alpha_test(c) == str_in(lower(c), ascii_lowercase)

\* the decrypted character of one alphabetic character
decrypt_char_swapped(c, shift) ==
    IF isupper(c)
    THEN ((c - ord_a - shift) % 26) + ord_a
    ELSE upper(((lower(c)[1] - ord_a - shift) % 26) + ord_a)

decrypt_char(c, shift) ==
    IF isupper(c)
    THEN upper(((lower(c)[1] - ord_a - shift) % 26) + ord_a)
    ELSE ((c - ord_a - shift) % 26) + ord_a

\* the loop over the ciphertext; i is the 0-based offset of the next
\* character, n the number of next(key_cycle) calls so far
RECURSIVE decrypt_loop(_, _, _, _, _)
decrypt_loop(ct, key, i, n, decrypted) ==
    IF i >= Len(ct) THEN Ok(decrypted)
    ELSE LET c == ct[i + 1] IN
         IF is_alpha_test(c)
         THEN IF Len(key) = 0 THEN Raised
              ELSE LET key_char == key[(n % Len(key)) + 1]
                       shift == key_char - ord_a
                   IN  decrypt_loop(ct, key, i + 1, n + 1,
                                    Append(decrypted, decrypt_char(c, shift)))
         ELSE decrypt_loop(ct, key, i + 1, n, Append(decrypted, c))

decrypt_vigenere(ct, key) == decrypt_loop(ct, str_lower(key), 0, 0, <<>>)

(***************************************************************************)
(* The Encrypt direction of the codec, which the program does not have.    *)
(***************************************************************************)
IsAsciiLetter(c) == c \in 65..90 \/ c \in 97..122

encrypt_char(c, shift) ==
    IF c \in 65..90 THEN ((c - 65 + shift) % 26) + 65
    ELSE ((c - ord_a + shift) % 26) + ord_a

RECURSIVE encrypt_loop(_, _, _, _, _)
encrypt_loop(t, key, i, n, out) ==
    IF i >= Len(t) THEN out
    ELSE LET c == t[i + 1] IN
         IF IsAsciiLetter(c)
         THEN encrypt_loop(t, key, i + 1, n + 1,
                           Append(out, encrypt_char(c, key[(n % Len(key)) + 1] - ord_a)))
         ELSE encrypt_loop(t, key, i + 1, n, Append(out, c))

encrypt_vigenere(t, key) ==
    IF Len(key) = 0 THEN Raised ELSE Ok(encrypt_loop(t, str_lower(key), 0, 0, <<>>))

(***************************************************************************)
(* get_cosets                                                              *)
(***************************************************************************)
\* the extended slice s[i::step] for 0 <= i and step >= 1
slice_from_next(s, i, step) ==
    LET cnt == IF i + 1 >= Len(s) THEN 0 ELSE ((Len(s) - i - 2) \div step) + 1
    IN  [j \in 1..cnt |-> s[i + 1 + (j - 1) * step + 1]]

slice_from(s, i, step) ==
    LET cnt == IF i >= Len(s) THEN 0 ELSE ((Len(s) - i - 1) \div step) + 1
    IN  [j \in 1..cnt |-> s[i + (j - 1) * step + 1]]

\* range(key_length) is empty for key_length <= 0, so the slice with a zero
\* step is never evaluated and the empty list is returned
get_cosets(ct, kl) ==
    Ok([i \in 1..(IF kl > 0 THEN kl ELSE 0) |-> slice_from(ct, i - 1, kl)])

(***************************************************************************)
(* frequency_analysis                                                      *)
(***************************************************************************)
\* Counter(coset): one entry per distinct letter in order of first
\* occurrence, with its count
RECURSIVE Counter(_, _)
Counter(s, counts) ==
    IF s = <<>> THEN counts
    ELSE IF \E k \in 1..Len(counts) : counts[k].k = Head(s)
         THEN LET at == CHOOSE k \in 1..Len(counts) : counts[k].k = Head(s)
              IN  with([counts EXCEPT ![at].v = @ + 1], LAMBDA c : Counter(Tail(s), c))
         ELSE with(Append(counts, [k |-> Head(s), v |-> 1]), LAMBDA c : Counter(Tail(s), c))

\* the inner loop "for c in counts" of one shift
RECURSIVE score_loop(_, _, _)
score_loop(counts, shift, score) ==
    IF counts = <<>> THEN score
    ELSE LET c == Head(counts).k
             expected_char == ((c - ord_a - shift) % 26) + ord_a
         IN  score_loop(Tail(counts), shift,
                        score + (IF expected_char \in DOMAIN english_index
                                 THEN Head(counts).v * (26 - english_index[expected_char])
                                 ELSE 0))

\* the comparison that replaces the best shift
score_beats_or_ties(score, best_score) == score >= best_score

score_beats(score, best_score) == score > best_score

RECURSIVE shift_loop(_, _, _, _)
shift_loop(counts, shift, best_shift, best_score) ==
    IF shift >= 26 THEN best_shift
    ELSE LET score == score_loop(counts, shift, 0) IN
         IF score_beats(score, best_score)
         THEN shift_loop(counts, shift + 1, shift, score)
         ELSE shift_loop(counts, shift + 1, best_shift, best_score)

frequency_analysis(coset) ==
    with(Counter(coset, <<>>), LAMBDA counts : shift_loop(counts, 0, 0, -1))

(***************************************************************************)
(* set(): the hash table behind "set([...])" and its iteration order.      *)
(* The hash of a small int is the int; slot 0 of the table marks "empty"   *)
(* by the value 0 (every key here is >= 2).                                *)
(***************************************************************************)
PySet_MINSIZE == 8
LINEAR_PROBES == 9
PERTURB_SHIFT_DIV == 32

\* the probe sequence of set_add_entry: the first unused slot for hash h
RECURSIVE set_probe(_, _, _, _)
set_probe(table, mask, i, perturb) ==
    LET probes == IF i + LINEAR_PROBES <= mask THEN LINEAR_PROBES ELSE 0
        free == {j \in 0..probes : table[i + j] = 0}
    IN  IF free # {}
        THEN i + (CHOOSE j \in free : \A k \in free : j <= k)
        ELSE LET p == perturb \div PERTURB_SHIFT_DIV
             IN  set_probe(table, mask, (i * 5 + 1 + p) % (mask + 1), p)

set_insert_clean(table, mask, key) ==
    [table EXCEPT ![set_probe(table, mask, key % (mask + 1), key)] = key]

\* the entries of a table in slot order, which is the iteration order
RECURSIVE table_entries(_, _, _)
table_entries(table, mask, i) ==
    IF i > mask THEN <<>>
    ELSE (IF table[i] = 0 THEN <<>> ELSE <<table[i]>>) \o table_entries(table, mask, i + 1)

RECURSIVE set_new_size(_, _)
set_new_size(newsize, minused) ==
    IF newsize <= minused THEN set_new_size(newsize * 2, minused) ELSE newsize

RECURSIVE set_reinsert(_, _, _)
set_reinsert(table, mask, entries) ==
    IF entries = <<>> THEN table
    ELSE with(set_insert_clean(table, mask, Head(entries)),
              LAMBDA t : set_reinsert(t, mask, Tail(entries)))

set_table_resize(so, minused) ==
    LET newsize == set_new_size(PySet_MINSIZE, minused)
        newmask == newsize - 1
    IN  [mask |-> newmask, fill |-> so.fill,
         table |-> set_reinsert([i \in 0..newmask |-> 0], newmask,
                                table_entries(so.table, so.mask, 0))]

set_add_key(so, key) ==
    IF \E i \in 0..so.mask : so.table[i] = key THEN so
    ELSE LET added == [mask |-> so.mask, fill |-> so.fill + 1,
                       table |-> set_insert_clean(so.table, so.mask, key)]
         IN  IF added.fill * 5 < added.mask * 3 THEN added
             ELSE set_table_resize(added, added.fill * 4)

RECURSIVE set_update(_, _)
set_update(so, l) ==
    IF l = <<>> THEN so
    ELSE with(set_add_key(so, Head(l)), LAMBDA added : set_update(added, Tail(l)))

\* list(set(l)): the elements of l in the iteration order of the set
set_iter(l) ==
    with(set_update([mask |-> PySet_MINSIZE - 1, fill |-> 0,
                     table |-> [i \in 0..(PySet_MINSIZE - 1) |-> 0]], l),
         LAMBDA so : table_entries(so.table, so.mask, 0))

(***************************************************************************)
(* kasiski_examination                                                     *)
(***************************************************************************)
MAX_KEY_LENGTH == 15
TOP_N == 3

\* the dict "sequences": one entry per trigram in order of first occurrence,
\* with the offsets where it starts
RECURSIVE build_sequences(_, _, _)
build_sequences(ct, i, sequences) ==
    IF i >= Len(ct) - 2 THEN sequences
    ELSE LET seq == SubSeq(ct, i + 1, i + 3)
         IN  IF \E k \in 1..Len(sequences) : sequences[k].seq = seq
             THEN LET at == CHOOSE k \in 1..Len(sequences) : sequences[k].seq = seq
                  IN  with([sequences EXCEPT ![at].pos = Append(@, i)],
                           LAMBDA d : build_sequences(ct, i + 1, d))
             ELSE with(Append(sequences, [seq |-> seq, pos |-> <<i>>]),
                       LAMBDA d : build_sequences(ct, i + 1, d))

repeated_seqs(sequences) == SelectSeq(sequences, LAMBDA e : Len(e.pos) > 1)

\* the double loop over one list of positions
consecutive_dists(positions) ==
    [j \in 1..(Len(positions) - 1) |-> positions[j + 1] - positions[j]]

RECURSIVE pair_dists(_)
pair_dists(positions) ==
    IF Len(positions) < 2 THEN <<>>
    ELSE [j \in 1..(Len(positions) - 1) |-> positions[j + 1] - positions[1]]
         \o pair_dists(Tail(positions))

RECURSIVE all_distances(_)
all_distances(repeated) ==
    IF repeated = <<>> THEN <<>>
    ELSE with(Head(repeated).pos, LAMBDA positions : pair_dists(positions))
         \o with(Tail(repeated), LAMBDA rest : all_distances(rest))

get_factors(n, max_key_length) ==
    set_iter(SelectSeq([i \in 1..(max_key_length - 1) |-> i + 1], LAMBDA f : n % f = 0))

\* common_factors[f] += 1 on a Counter kept as a list in insertion order
RECURSIVE count_factors(_, _)
count_factors(counter, factors) ==
    IF factors = <<>> THEN counter
    ELSE LET f == Head(factors) IN
         IF \E k \in 1..Len(counter) : counter[k].k = f
         THEN LET at == CHOOSE k \in 1..Len(counter) : counter[k].k = f
              IN  with([counter EXCEPT ![at].v = @ + 1],
                       LAMBDA c : count_factors(c, Tail(factors)))
         ELSE with(Append(counter, [k |-> f, v |-> 1]),
                   LAMBDA c : count_factors(c, Tail(factors)))

\* the loop "for d in distances" over the 1-based range lo..hi in list
\* order; the range is split in halves to keep the evaluation depth
\* logarithmic
RECURSIVE count_distances(_, _, _, _, _)
count_distances(counter, distances, lo, hi, max_key_length) ==
    IF lo > hi THEN counter
    ELSE IF lo = hi
    THEN with(get_factors(distances[lo], max_key_length),
              LAMBDA factors : count_factors(counter, factors))
    ELSE with(count_distances(counter, distances, lo, (lo + hi) \div 2, max_key_length),
              LAMBDA left : count_distances(left, distances, ((lo + hi) \div 2) + 1, hi,
                                            max_key_length))

common_factors(ct, max_key_length) ==
    with(all_distances(repeated_seqs(build_sequences(ct, 0, <<>>))),
         LAMBDA distances : count_distances(<<>>, distances, 1, Len(distances), max_key_length))

\* Counter.most_common(n): the n entries of highest count, equal counts in
\* insertion order (heapq.nlargest is stable)
RECURSIVE most_common(_, _)
most_common(counter, n) ==
    IF n = 0 \/ counter = <<>> THEN <<>>
    ELSE LET best == CHOOSE k \in 1..Len(counter) :
                        /\ \A j \in 1..Len(counter) : counter[j].v <= counter[k].v
                        /\ \A j \in 1..(k - 1) : counter[j].v < counter[k].v
         IN  <<counter[best]>>
             \o most_common([j \in 1..(Len(counter) - 1) |->
                                IF j < best THEN counter[j] ELSE counter[j + 1]], n - 1)

kasiski_examination(ct, max_key_length) ==
    with(common_factors(ct, max_key_length),
         LAMBDA counter : with(most_common(counter, TOP_N),
                               LAMBDA top : [j \in 1..Len(top) |-> top[j].k]))

(***************************************************************************)
(* crack_vigenere                                                          *)
(***************************************************************************)
\* the key of one attempt: one frequency_analysis per coset, chr(shift + ord('a'))
RECURSIVE key_loop(_, _, _)
key_loop(cosets, i, key) ==
    IF i >= Len(cosets) THEN key
    ELSE with(Append(key, frequency_analysis(cosets[i + 1]) + ord_a),
              LAMBDA k : key_loop(cosets, i + 1, k))

assemble_key(text, kl) ==
    with(get_cosets(text, kl).val, LAMBDA cosets : key_loop(cosets, 0, <<>>))

\* response == 'y' after input(...).lower()
is_yes(response) == str_lower(response) = <<121>>

\* the text handed to decrypt_vigenere in an attempt
decrypt_input_cleaned(ct, cl) == cl

decrypt_input(ct, cl) == ct

\* the guard of the manual loop: key_length not in possible_lengths
manual_guard_always(kl, pl) == TRUE

manual_guard(kl, pl) == ~list_contains(pl, kl)

MANUAL_FIRST == 5
MANUAL_STOP == 16

NotFound == [found |-> FALSE, key |-> <<>>, text |-> <<>>]

Responses == {<<121>>, <<89>>, <<110>>}

\* the body shared by both loops: key, decryption, question, return on 'y'
Attempt(kl, response) ==
    \E key \in {assemble_key(cleaned, kl)} :
    \E decrypted \in {decrypt_vigenere(decrypt_input(ciphertext, cleaned), key)} :
        /\ tried' = Append(tried, kl)
        /\ IF decrypted.ok
           THEN /\ asked' = Append(asked, kl)
                /\ responses' = Append(responses, is_yes(response))
                /\ IF is_yes(response)
                   THEN /\ result' = [found |-> TRUE, key |-> key, text |-> decrypted.val]
                        /\ pc' = "done"
                        /\ UNCHANGED <<ri, key_length>>
                   ELSE /\ UNCHANGED result
                        /\ IF pc = "ranked"
                           THEN /\ ri' = ri + 1
                                /\ UNCHANGED <<pc, key_length>>
                           ELSE /\ key_length' = key_length + 1
                                /\ UNCHANGED <<pc, ri>>
           ELSE /\ pc' = "raised"
                /\ UNCHANGED <<asked, responses, result, ri, key_length>>
        /\ UNCHANGED <<ciphertext, cleaned, possible_lengths>>
        /\ UNCHANGED fn_vars

Start ==
    /\ pc = "start"
    /\ \E cl \in {clean_text(ciphertext)} :
          /\ cleaned' = cl
          /\ possible_lengths' = kasiski_examination(cl, MAX_KEY_LENGTH)
    /\ pc' = "ranked"
    /\ ri' = 0
    /\ UNCHANGED <<ciphertext, key_length, tried, asked, responses, result>>
    /\ UNCHANGED fn_vars

RankedAttempt ==
    /\ pc = "ranked"
    /\ ri < Len(possible_lengths)
    /\ \E response \in Responses : Attempt(possible_lengths[ri + 1], response)

RankedExhausted ==
    /\ pc = "ranked"
    /\ ri >= Len(possible_lengths)
    /\ pc' = "manual"
    /\ key_length' = MANUAL_FIRST
    /\ UNCHANGED <<ciphertext, cleaned, possible_lengths, ri, tried, asked, responses, result>>
    /\ UNCHANGED fn_vars

ManualAttempt ==
    /\ pc = "manual"
    /\ key_length < MANUAL_STOP
    /\ manual_guard(key_length, possible_lengths)
    /\ \E response \in Responses : Attempt(key_length, response)

ManualSkip ==
    /\ pc = "manual"
    /\ key_length < MANUAL_STOP
    /\ ~manual_guard(key_length, possible_lengths)
    /\ key_length' = key_length + 1
    /\ UNCHANGED <<ciphertext, cleaned, possible_lengths, pc, ri, tried, asked, responses, result>>
    /\ UNCHANGED fn_vars

ManualExhausted ==
    /\ pc = "manual"
    /\ key_length >= MANUAL_STOP
    /\ result' = NotFound
    /\ pc' = "done"
    /\ UNCHANGED <<ciphertext, cleaned, possible_lengths, ri, key_length, tried, asked, responses>>
    /\ UNCHANGED fn_vars

\* ciphertexts: a short prefix of letters of both cases and punctuation,
\* followed by nothing or by a text of an exact period
RawChars == {97, 66, 33}

Synthetic(P, L) == [i \in 1..L |-> ord_a + ((i - 1) % P)]

PeriodTexts == {Synthetic(P, P + 3) : P \in 2..MAX_KEY_LENGTH}

RawTexts == {p \o s : p \in StringsUpTo(RawChars, MaxRawLen), s \in {<<>>} \cup PeriodTexts}

FnIdle ==
    /\ fn_text = <<>>
    /\ fn_key = <<>>
    /\ fn_n = 0
    /\ fn_enc = Raised
    /\ fn_ret = Raised

Init ==
    /\ ciphertext \in RawTexts
    /\ cleaned = <<>>
    /\ possible_lengths = <<>>
    /\ pc = "start"
    /\ ri = 0
    /\ key_length = 0
    /\ tried = <<>>
    /\ asked = <<>>
    /\ responses = <<>>
    /\ result = NotFound
    /\ FnIdle

Next ==
    \/ Start
    \/ RankedAttempt
    \/ RankedExhausted
    \/ ManualAttempt
    \/ ManualSkip
    \/ ManualExhausted

Spec == Init /\ [][Next]_vars

\* the run is synchronous and every question is answered, so a step that is
\* possible is eventually taken
FairSpec == Init /\ [][Next]_vars /\ WF_vars(Next)

(***************************************************************************)
(* Specifications that call one function on inputs drawn from bounded      *)
(* sets.  The variables of crack_vigenere stay at their initial values.    *)
(***************************************************************************)
OrchIdle ==
    /\ ciphertext = <<>>
    /\ cleaned = <<>>
    /\ possible_lengths = <<>>
    /\ ri = 0
    /\ key_length = 0
    /\ tried = <<>>
    /\ asked = <<>>
    /\ responses = <<>>
    /\ result = NotFound

\* ---- decrypt_vigenere, alone and after the Encrypt direction
CodecChars == {97, 122, 66, 49, 32, E_ACUTE_UPPER, KELVIN}
CodecKeyChars == {97, 98, 122}

CodecInit ==
    /\ OrchIdle
    /\ pc = "call"
    /\ fn_text \in StringsUpTo(CodecChars, MaxTextLen)
    /\ fn_key \in StringsUpTo(CodecKeyChars, MaxCodecKeyLen)
    /\ fn_n = 0
    /\ fn_enc = Raised
    /\ fn_ret = Raised

CodecDecrypt ==
    /\ pc = "call"
    /\ fn_ret' = decrypt_vigenere(fn_text, fn_key)
    /\ pc' = "dec"
    /\ UNCHANGED <<fn_text, fn_key, fn_n, fn_enc>>
    /\ UNCHANGED orch_vars

CodecEncrypt ==
    /\ pc = "call"
    /\ fn_enc' = encrypt_vigenere(fn_text, fn_key)
    /\ pc' = "enc"
    /\ UNCHANGED <<fn_text, fn_key, fn_n, fn_ret>>
    /\ UNCHANGED orch_vars

CodecDecryptBack ==
    /\ pc = "enc"
    /\ fn_enc.ok
    /\ fn_ret' = decrypt_vigenere(fn_enc.val, fn_key)
    /\ pc' = "rt"
    /\ UNCHANGED <<fn_text, fn_key, fn_n, fn_enc>>
    /\ UNCHANGED orch_vars

CodecNext ==
    \/ CodecDecrypt
    \/ CodecEncrypt
    \/ CodecDecryptBack

CodecSpec == CodecInit /\ [][CodecNext]_vars

\* ---- get_cosets
CosetChars == {97, 98, 99}

CosetInit ==
    /\ OrchIdle
    /\ pc = "call"
    /\ fn_text \in StringsUpTo(CosetChars, MaxCosetTextLen)
    /\ fn_key = <<>>
    /\ fn_n \in (-1)..MaxCosetArg
    /\ fn_enc = Raised
    /\ fn_ret = Raised

CosetCall ==
    /\ pc = "call"
    /\ fn_ret' = get_cosets(fn_text, fn_n)
    /\ pc' = "ret"
    /\ UNCHANGED <<fn_text, fn_key, fn_n, fn_enc>>
    /\ UNCHANGED orch_vars

CosetSpec == CosetInit /\ [][CosetCall]_vars

\* ---- frequency_analysis
FreqLetters == {101, 116, 97, 122, 113}

FreqInit ==
    /\ OrchIdle
    /\ pc = "call"
    /\ fn_text \in StringsUpTo(FreqLetters, MaxCosetLen)
    /\ fn_key = <<>>
    /\ fn_n = 0
    /\ fn_enc = Raised
    /\ fn_ret = Raised

FreqCall ==
    /\ pc = "call"
    /\ fn_n' = frequency_analysis(fn_text)
    /\ pc' = "ret"
    /\ UNCHANGED <<fn_text, fn_key, fn_enc, fn_ret>>
    /\ UNCHANGED orch_vars

FreqSpec == FreqInit /\ [][FreqCall]_vars

\* ---- kasiski_examination
KasChars == {97, 98}

KasTexts ==
    StringsUpTo(KasChars, MaxKasLen)
    \cup {Synthetic(P, L) : P \in 2..MAX_KEY_LENGTH, L \in 5..MaxSynLen}

KasInit ==
    /\ OrchIdle
    /\ pc = "call"
    /\ fn_text \in KasTexts
    /\ fn_key = <<>>
    /\ fn_n = 0
    /\ fn_enc = Raised
    /\ fn_ret = Raised

KasCall ==
    /\ pc = "call"
    /\ fn_ret' = Ok(kasiski_examination(fn_text, MAX_KEY_LENGTH))
    /\ pc' = "ret"
    /\ UNCHANGED <<fn_text, fn_key, fn_n, fn_enc>>
    /\ UNCHANGED orch_vars

KasSpec == KasInit /\ [][KasCall]_vars

(***************************************************************************)
(* Properties of crack_vigenere                                            *)
(***************************************************************************)
Accepted == {i \in 1..Len(responses) : responses[i]}

FirstAccepted == CHOOSE i \in Accepted : \A j \in Accepted : i <= j

ManualLengths == [i \in 1..(MANUAL_STOP - MANUAL_FIRST) |-> MANUAL_FIRST + i - 1]

FinalResultOK ==
    IF Accepted # {}
    THEN \E key \in {assemble_key(clean_text(ciphertext), asked[FirstAccepted])} :
             /\ result # NotFound
             /\ result.found
             /\ result.key = key
             /\ result.text = decrypt_vigenere(ciphertext, key).val
    ELSE /\ result = NotFound
         /\ \A k \in 5..15 : list_contains(asked, k)

\* C1: every run of crack_vigenere ends; when the oracle accepted, the result
\* is the key assembled for the first accepted length with the decryption of
\* the original ciphertext under it, and when the oracle rejected every
\* attempt, the result is the not-found value and all of 5..15 was attempted.
C1_TerminatesWithResult ==
    /\ <>(pc = "done")
    /\ [](pc = "done" => FinalResultOK)

C1_Witness ==
    /\ pc = "done"
    /\ result.found
    /\ Len(asked) > Len(possible_lengths)
    /\ Len(possible_lengths) > 0
    /\ ciphertext # cleaned
    /\ result.text # decrypt_vigenere(cleaned, result.key).val

\* the order in which lengths are to be attempted: the ranked candidates,
\* then the lengths of 5..15 that are not among them, ascending
FullOrder ==
    possible_lengths
    \o SelectSeq(ManualLengths, LAMBDA k : \A i \in 1..Len(possible_lengths) : possible_lengths[i] # k)

OracleOrderOK ==
    /\ Len(asked) <= Len(FullOrder)
    /\ asked = SubSeq(FullOrder, 1, Len(asked))
    /\ tried = asked
    /\ Len(responses) = Len(asked)
    /\ \A i \in 1..Len(asked) : \A j \in 1..Len(asked) : i # j => asked[i] # asked[j]
    /\ \A i \in 1..(Len(responses) - 1) : ~responses[i]
    /\ Len(asked) > Len(possible_lengths) =>
          \A i \in 1..Len(possible_lengths) : ~responses[i]

OracleStepOK ==
    asked' # asked =>
        /\ Accepted = {}
        /\ pc # "done"
        /\ Len(asked') = Len(asked) + 1
        /\ SubSeq(asked', 1, Len(asked)) = asked

\* C2: the lengths presented to the oracle are a prefix of the ranked
\* candidates followed by the not yet attempted lengths of 5..15 ascending; one
\* oracle call per attempted length, no length twice, no manual attempt before
\* every ranked candidate was rejected, and no call after an accept.
C2_OracleOrder ==
    /\ []OracleOrderOK
    /\ [][OracleStepOK]_vars

C2_Witness ==
    /\ pc = "done"
    /\ Len(possible_lengths) > 0
    /\ \E i \in 1..Len(possible_lengths) : possible_lengths[i] >= MANUAL_FIRST
    /\ Len(asked) = Len(FullOrder)
    /\ Len(asked) > Len(possible_lengths)

(***************************************************************************)
(* Properties of decrypt_vigenere                                          *)
(***************************************************************************)
IsAsciiText(t) == \A i \in 1..Len(t) : t[i] < 128

IsLowerKey(k) == Len(k) > 0 /\ \A i \in 1..Len(k) : k[i] \in 97..122

C4_EmptyKeyFails ==
    (pc = "dec" /\ fn_key = <<>>) => ~fn_ret.ok

\* the number of ASCII letters before the 1-based position i
LettersBefore(t, i) == Cardinality({j \in 1..(i - 1) : IsAsciiLetter(t[j])})

ExpectedPlain(t, k, i) ==
    LET kc == k[(LettersBefore(t, i) % Len(k)) + 1] - ord_a
    IN  IF t[i] \in 65..90 THEN ((t[i] - 65 - kc) % 26) + 65
        ELSE IF t[i] \in 97..122 THEN ((t[i] - 97 - kc) % 26) + 97
        ELSE t[i]

\* C7: the output of decrypt_vigenere has the length of the input; every
\* character that is not an ASCII letter stays in place and takes no key
\* position; every ASCII letter becomes the letter of the same case at
\* (letter index - key index) mod 26, the key indexed by the number of
\* letters before it.
C7_FormatPreserved ==
    (pc = "dec" /\ IsLowerKey(fn_key)) =>
        /\ fn_ret.ok
        /\ Len(fn_ret.val) = Len(fn_text)
        /\ \A i \in 1..Len(fn_text) : fn_ret.val[i] = ExpectedPlain(fn_text, fn_key, i)

(***************************************************************************)
(* Properties of get_cosets                                                *)
(***************************************************************************)
\* C5: get_cosets does not fail for a key length >= 1 and signals an error,
\* not a list of cosets, for a key length < 1.
C5_InvalidKeyLength ==
    pc = "ret" => (fn_ret.ok <=> fn_n >= 1)

RECURSIVE SumLen(_)
SumLen(ss) == IF ss = <<>> THEN 0 ELSE Len(Head(ss)) + SumLen(Tail(ss))

\* C10: for a key length N >= 1, get_cosets returns N cosets, coset i holding
\* the letters at offsets i, i+N, ...; interleaving them gives the text back,
\* their lengths sum to its length and each is len \div N or one more.
C10_Cosets ==
    (pc = "ret" /\ fn_n >= 1) =>
        LET cosets == fn_ret.val
            n == Len(fn_text)
        IN  /\ fn_ret.ok
            /\ Len(cosets) = fn_n
            /\ \A i \in 1..fn_n :
                  /\ Len(cosets[i]) = Cardinality({k \in 0..(n - 1) : k % fn_n = i - 1})
                  /\ Len(cosets[i]) \in {n \div fn_n, (n \div fn_n) + 1}
                  /\ \A j \in 1..Len(cosets[i]) : cosets[i][j] = fn_text[(i - 1) + (j - 1) * fn_n + 1]
            /\ \A k \in 0..(n - 1) : fn_text[k + 1] = cosets[(k % fn_n) + 1][(k \div fn_n) + 1]
            /\ SumLen(cosets) = n

C10_Witness ==
    /\ pc = "ret"
    /\ fn_n = 3
    /\ fn_text = <<97, 98, 99, 98>>
    /\ fn_ret.val = << <<97, 98>>, <<98>>, <<99>> >>

(***************************************************************************)
(* Properties of frequency_analysis                                        *)
(***************************************************************************)
RankOf(x) == CHOOSE r \in 0..25 : ENGLISH_FREQ[r + 1] = x

RECURSIVE ScoreFrom(_, _, _)
ScoreFrom(coset, s, c) ==
    IF c > 122 THEN 0
    ELSE Cardinality({i \in 1..Len(coset) : coset[i] = c})
            * (26 - RankOf(((c - 97 - s) % 26) + 97))
         + ScoreFrom(coset, s, c + 1)

ShiftScore(coset, s) == ScoreFrom(coset, s, 97)

\* C8: frequency_analysis returns a shift of 0..25 of maximal score, the
\* smallest among the shifts of maximal score, and 0 for the empty coset.
C8_BestShift ==
    pc = "ret" =>
        /\ fn_n \in 0..25
        /\ \A s \in 0..25 :
              /\ ShiftScore(fn_text, s) <= ShiftScore(fn_text, fn_n)
              /\ s < fn_n => ShiftScore(fn_text, s) < ShiftScore(fn_text, fn_n)
        /\ fn_text = <<>> => fn_n = 0

C8_Witness ==
    /\ pc = "ret"
    /\ Len(fn_text) >= 2
    /\ fn_n > 0
    /\ \E s \in 0..25 : s > fn_n /\ ShiftScore(fn_text, s) = ShiftScore(fn_text, fn_n)

(***************************************************************************)
(* Properties of kasiski_examination                                       *)
(***************************************************************************)
\* the same trigram starts at the 0-based offsets i and j
SameTrigram(t, i, j) == \A k \in 1..3 : t[i + k] = t[j + k]

\* the unordered pairs of occurrences of the same trigram
RepeatPairs(t) ==
    {p \in (0..(Len(t) - 3)) \X (0..(Len(t) - 3)) : p[1] < p[2] /\ SameTrigram(t, p[1], p[2])}

Votes(t, f) == Cardinality({p \in RepeatPairs(t) : (p[2] - p[1]) % f = 0})

Voted(t) == {f \in 2..MAX_KEY_LENGTH : Votes(t, f) > 0}

\* every repeat of a trigram is a multiple of P away, and one is exactly P away
PlacedAtPeriod(t, P) ==
    /\ \E p \in RepeatPairs(t) : p[2] - p[1] = P
    /\ \A p \in RepeatPairs(t) : (p[2] - p[1]) % P = 0

\* C6: a text that repeats a trigram at the exact period P, 2 <= P <= 15, has
\* P among the candidate lengths of kasiski_examination.
C6_PeriodDetected ==
    pc = "ret" =>
        \A P \in 2..MAX_KEY_LENGTH : PlacedAtPeriod(fn_text, P) => list_contains(fn_ret.val, P)

PosIn(l, x) == CHOOSE i \in 1..Len(l) : l[i] = x

TopDivisors(t, res) ==
    /\ Len(res) = (IF Cardinality(Voted(t)) < TOP_N THEN Cardinality(Voted(t)) ELSE TOP_N)
    /\ (res = <<>>) <=> (\A p \in RepeatPairs(t) : \A f \in 2..MAX_KEY_LENGTH : (p[2] - p[1]) % f # 0)
    /\ \A i \in 1..Len(res) : res[i] \in Voted(t)
    /\ \A i \in 1..Len(res) : \A j \in 1..Len(res) : i # j => res[i] # res[j]
    /\ \A i \in 1..(Len(res) - 1) : Votes(t, res[i]) >= Votes(t, res[i + 1])
    /\ \A g \in Voted(t) : ~list_contains(res, g) =>
          \A i \in 1..Len(res) : Votes(t, g) <= Votes(t, res[i])

\* the place of a pair of occurrences in the list of distances: trigrams in
\* the order of their first occurrence, then the earlier offset, then the later
FirstOcc(t, i) == CHOOSE k \in 0..i : SameTrigram(t, k, i) /\ \A m \in 0..(k - 1) : ~SameTrigram(t, m, i)

PairBefore(t, p, q) ==
    \/ FirstOcc(t, p[1]) < FirstOcc(t, q[1])
    \/ FirstOcc(t, p[1]) = FirstOcc(t, q[1]) /\ p[1] < q[1]
    \/ p[1] = q[1] /\ p[2] < q[2]

\* the first pair whose distance f divides
FirstPair(t, f) ==
    CHOOSE p \in RepeatPairs(t) :
        /\ (p[2] - p[1]) % f = 0
        /\ \A q \in RepeatPairs(t) : (q[2] - q[1]) % f = 0 /\ q # p => PairBefore(t, p, q)

\* f is met before g when the divisors of a distance are scanned ascending
BeforeAscending(t, f, g) ==
    \/ PairBefore(t, FirstPair(t, f), FirstPair(t, g))
    \/ FirstPair(t, f) = FirstPair(t, g) /\ f < g

\* f is met before g when the divisors of a distance are visited in the
\* iteration order of the set that get_factors returns
BeforeInSet(t, f, g) ==
    \/ PairBefore(t, FirstPair(t, f), FirstPair(t, g))
    \/ /\ FirstPair(t, f) = FirstPair(t, g)
       /\ \E factors \in {get_factors(FirstPair(t, f)[2] - FirstPair(t, f)[1], MAX_KEY_LENGTH)} :
             PosIn(factors, f) < PosIn(factors, g)

TiesByOrder(t, res, Before(_, _, _)) ==
    \A f \in Voted(t) : \A g \in Voted(t) :
        (Votes(t, f) = Votes(t, g) /\ Before(t, f, g) /\ list_contains(res, g)) =>
            list_contains(res, f) /\ PosIn(res, f) < PosIn(res, g)

\* C9 as stated: at most 3 distinct divisors of 2..15 by non-increasing votes
\* over all pairs of occurrences, none left out with more votes, empty exactly
\* when no distance has a divisor in 2..15, ties going to the divisor met
\* first in the factor scan of 2..15.
C9_TopDivisorsScanOrder ==
    pc = "ret" =>
        /\ TopDivisors(fn_text, fn_ret.val)
        /\ TiesByOrder(fn_text, fn_ret.val, BeforeAscending)

\* C9 amended: the same, ties going to the divisor inserted first in the
\* vote counter, the divisors of one distance being visited in the iteration
\* order of their set.
C9_TopDivisorsSetOrder ==
    pc = "ret" =>
        /\ TopDivisors(fn_text, fn_ret.val)
        /\ TiesByOrder(fn_text, fn_ret.val, BeforeInSet)

C9_Witness ==
    /\ pc = "ret"
    /\ fn_text = Synthetic(10, 23)
    /\ fn_ret.val = <<2, 10, 5>>
    /\ Votes(fn_text, 5) = Votes(fn_text, 10)
    /\ Votes(fn_text, 4) > 0

====
